---- MODULE Spec2Model ----
(***************************************************************************)
(* The data pipeline of the LinkedIn analytics dashboard (src/main.py).    *)
(*                                                                         *)
(* main.py is a Streamlit script: every user interaction (a file upload, a *)
(* widget change, an edit of the boost table) reruns the script top to     *)
(* bottom over the session's widget state.  The model keeps the widget     *)
(* state and the values the last run computed as variables; each action    *)
(* changes one widget and then runs the whole script (Rerun).              *)
(*                                                                         *)
(* Values.  A pandas cell that may be missing (NaN, NaT, None) is a        *)
(* sequence of length 0 or 1: NaN == <<>>, Val(x) == <<x>>.  The same form *)
(* is used for Python's None (df_posts = None, date_range = None).         *)
(* Text is a sequence of one-character strings.  Timestamps are integer    *)
(* ticks, TicksPerDay of them to a calendar day; a calendar date d (what   *)
(* st.date_input returns) converts to the timestamp of its midnight.       *)
(* Numbers are integers in hundredths (One == 100 stands for 1.0), so that *)
(* the fractions 0..1 a click-through-rate may be exported as can be told  *)
(* from percentages.                                                       *)
(***************************************************************************)
EXTENDS Integers, Sequences, FiniteSets, TLC

VARIABLES
    uploaded_posts,       \* st.file_uploader: the "all posts" CSV, or NaN
    uploaded_metrics,     \* st.file_uploader: the "metrics" CSV, or NaN
    boosted_config_file,  \* st.file_uploader: boosted_config.csv, or NaN
    date_input,           \* widget state of st.date_input (NaN: untouched)
    tags_input,           \* widget state of the hashtag multiselect
    metrics_input,        \* widget state of the metric multiselect (NaN: untouched)
    edited_rows,          \* widget state of st.data_editor: rows whose checkbox was flipped
    df_posts,             \* line 102/107
    df_metrics,           \* line 102/109
    df_boosted_config,    \* line 102/112/118
    boosted_edited,       \* line 138
    download,             \* the bytes behind the download button, line 147
    date_range,           \* line 120/159
    all_tags,             \* line 165
    filtered,             \* line 172..185
    metrics,              \* line 190
    metric_cards,         \* what col.metric shows, line 197..201
    filtered_display,     \* the five flag columns, line 212..227
    long_df,              \* line 332
    messages,             \* st.warning / st.error / st.info emitted by the run
    exception,            \* the exception that ended the run, or NaN
    first_export          \* history: the export that was uploaded again, or NaN

vars == <<uploaded_posts, uploaded_metrics, boosted_config_file, date_input,
          tags_input, metrics_input, edited_rows, df_posts, df_metrics,
          df_boosted_config, boosted_edited, download, date_range, all_tags,
          filtered, metrics, metric_cards, filtered_display, long_df,
          messages, exception, first_export>>

----------------------------------------------------------------------------
(* Missing values and small helpers                                        *)

NaN == <<>>
Val(x) == <<x>>
IsNaN(v) == Len(v) = 0
NotNaN(v) == Len(v) = 1
Get(v) == v[1]

\* TLC evaluates a function constructor anew at every application; these two
\* return the same sequence (function), evaluated once
Tuple(s) == s \o <<>>
Fcn(f) == f @@ <<>>

Range(s) == {s[i] : i \in 1..Len(s)}
SelectIdx(s, Keep(_)) ==
    LET F[i \in 0..Len(s)] ==
            IF i = 0 THEN <<>>
            ELSE IF Keep(i) THEN Append(F[i - 1], s[i]) ELSE F[i - 1]
    IN  F[Len(s)]
SeqsUpTo(S, n) == UNION {[1..k -> S] : k \in 0..n}
RECURSIVE SumSeq(_)
SumSeq(s) == IF s = <<>> THEN 0 ELSE Head(s) + SumSeq(Tail(s))
RECURSIVE Concat(_)
Concat(ss) == IF ss = <<>> THEN <<>> ELSE Head(ss) \o Concat(Tail(ss))
Max(S) == CHOOSE x \in S : \A y \in S : y <= x
Min(S) == CHOOSE x \in S : \A y \in S : x <= y

----------------------------------------------------------------------------
(* Bounds of the model                                                     *)

MaxPostRows == 3       \* rows of a posts file whose numeric columns vary
MaxDateRows == 2       \* rows of a posts file whose dates vary
MaxTagRows == 3        \* rows of a posts file whose titles vary
MaxBoostRows == 2      \* rows of a posts file that is annotated
MaxConfigRows == 2     \* rows of a hand-made annotation file
MaxExportRows == 2     \* rows of an export that is uploaded again
MaxMetricRows == 2     \* rows of a metrics file
MaxPicks == 2          \* hashtags picked in the multiselect
MaxDay == 2            \* calendar days are 0..MaxDay; MaxDay is "today"
TicksPerDay == 2       \* timestamps per calendar day (midnight, noon)

(* Program constants                                                       *)
One == 100             \* the literal 1 of "max() <= 1", in hundredths
Hundred == 100         \* the factor of "df["CTR"] * 100"
Day2000 == 0           \* datetime(2000, 1, 1), the first calendar day

----------------------------------------------------------------------------
(* Raw CSV cells: <<kind, value>>                                          *)

Num(n) == <<"num", n>>
Date(t) == <<"date", t>>
Text(s) == <<"text", s>>
Junk == <<"junk", 0>>

\* pd.to_numeric(errors="coerce"): a number parses, anything else is NaN
to_numeric(cell) == IF cell[1] = "num" THEN Val(cell[2]) ELSE NaN
\* pd.to_datetime(errors="coerce"): a date parses, anything else is NaT
to_datetime(cell) == IF cell[1] = "date" THEN Val(cell[2]) ELSE NaN
\* pd.read_csv on a text column: the empty cell is NaN
read_text(cell) == IF cell[1] = "text" /\ cell[2] # <<>> THEN Val(cell[2]) ELSE NaN

\* Series.max(): the largest non-missing value, NaN when there is none
SeriesMax(col) ==
    LET present == {Get(col[i]) : i \in {j \in 1..Len(col) : NotNaN(col[j])}}
    IN  IF present = {} THEN NaN ELSE Val(Max(present))
SeriesMin(col) ==
    LET present == {Get(col[i]) : i \in {j \in 1..Len(col) : NotNaN(col[j])}}
    IN  IF present = {} THEN NaN ELSE Val(Min(present))
Column(df, c) == Tuple([i \in 1..Len(df) |-> df[i][c]])

----------------------------------------------------------------------------
(* Posts Normalizer                                                        *)

NumericColumns ==
    {"Impressions", "Clicks", "CTR", "Likes", "Comments", "Reposts", "Follows",
     "Engagement Rate"}

\* lines 40-54: one parsed row
ParsePostRow(raw) ==
    Fcn([c \in DOMAIN raw |->
        IF c = "Created Date" THEN to_datetime(raw[c])
        ELSE IF c \in NumericColumns THEN to_numeric(raw[c])
        ELSE read_text(raw[c])])

\* (a slip that tests the smallest value instead of the largest)
CtrIsFractionByMin(df) ==
    LET m == SeriesMin(Column(df, "CTR"))
    IN  NotNaN(m) /\ Get(m) <= One

\* line 56: "CTR" in df.columns and df["CTR"].max() <= 1  (NaN <= 1 is False)
CtrIsFraction(df) ==
    LET m == SeriesMax(Column(df, "CTR"))
    IN  NotNaN(m) /\ Get(m) <= One

\* line 57: df["CTR"] * 100  (NaN stays NaN)
Rescale(v) == IF IsNaN(v) THEN NaN ELSE Val(Get(v) * Hundred)

RescaleCtr(df) ==
    IF CtrIsFraction(df)
    THEN Tuple([i \in 1..Len(df) |-> [df[i] EXCEPT !["CTR"] = Rescale(@)]])
    ELSE df

\* lines 39-58
read_posts_csv(file) ==
    RescaleCtr(Tuple([i \in 1..Len(file) |-> ParsePostRow(file[i])]))

----------------------------------------------------------------------------
(* Text                                                                    *)

WordChars == {"a", "b", "A", "B", "n", "_"}
Lower(c) == IF c = "A" THEN "a" ELSE IF c = "B" THEN "b" ELSE c
LowerStr(s) == Tuple([i \in 1..Len(s) |-> Lower(s[i])])
\* code points, for the order sorted() uses
Ord(c) ==
    CASE c = " " -> 32 [] c = "#" -> 35 [] c = "." -> 46 [] c = "A" -> 65
      [] c = "B" -> 66 [] c = "\\" -> 92 [] c = "_" -> 95 [] c = "a" -> 97
      [] c = "b" -> 98 [] c = "n" -> 110 [] OTHER -> 124
\* a < b for Python strings
StrLess(a, b) ==
    \E k \in 0..Len(a) :
        /\ k <= Len(b)
        /\ \A i \in 1..k : a[i] = b[i]
        /\ IF k = Len(a) THEN k < Len(b)
           ELSE k < Len(b) /\ Ord(a[k + 1]) < Ord(b[k + 1])

\* Series.astype(str): a missing cell becomes the text "nan"
astype_str(v) == IF IsNaN(v) THEN <<"n", "a", "n">> ELSE Get(v)

----------------------------------------------------------------------------
(* Hashtag Extractor                                                       *)

\* the end of the run of word characters that starts at j
WordEnd(text, j) ==
    Max({k \in j..Len(text) : \A i \in j..k : text[i] \in WordChars})

\* re.findall(r"#\w+", text): "#" is no word character, so every "#" that a
\* word character follows starts a match and matches never overlap
findall_hashtags(text) ==
    {SubSeq(text, i, WordEnd(text, i + 1)) :
        i \in {j \in 1..Len(text) - 1 :
                  text[j] = "#" /\ text[j + 1] \in WordChars}}

\* lines 73-78: the set of tags of the non-missing titles
HashtagSet(series) ==
    UNION {findall_hashtags(Get(series[i])) :
              i \in {j \in 1..Len(series) : NotNaN(series[j])}}

\* line 79: sorted(tags, key=str.lower); tags that differ in case only keep
\* the order the set iterates in, which is any order
RECURSIVE SortedByLower(_)
SortedByLower(tags) ==
    IF tags = {} THEN {<<>>}
    ELSE UNION {{<<t>> \o rest : rest \in SortedByLower(tags \ {t})} :
                  t \in {u \in tags :
                            \A w \in tags : ~StrLess(LowerStr(w), LowerStr(u))}}

extract_hashtags(series) == SortedByLower(HashtagSet(series))

----------------------------------------------------------------------------
(* The hashtag pattern, lines 179-184                                      *)

\* re.escape: every character that is not alphanumeric or "_" gets a backslash
re_escape(t) ==
    Concat(Tuple([i \in 1..Len(t) |->
        IF t[i] \in WordChars THEN <<t[i]>> ELSE <<"\\", t[i]>>]))

\* "|".join(parts)
JoinBar(parts) ==
    Concat(Tuple([i \in 1..Len(parts) |->
        IF i = 1 THEN parts[i] ELSE <<"|">> \o parts[i]]))

\* The pattern as the regex engine reads it: the alternatives between
\* unescaped "|", each a string of literals (an escaped character stands for
\* itself).  st = <<alternatives done, current alternative, escaped?>>
RECURSIVE ReadPattern(_, _)
ReadPattern(p, st) ==
    IF p = <<>> THEN Append(st[1], st[2])
    ELSE LET c == Head(p) IN
         IF st[3] THEN ReadPattern(Tail(p), <<st[1], Append(st[2], c), FALSE>>)
         ELSE IF c = "\\" THEN ReadPattern(Tail(p), <<st[1], st[2], TRUE>>)
         ELSE IF c = "|" THEN ReadPattern(Tail(p), <<Append(st[1], st[2]), <<>>, FALSE>>)
         ELSE ReadPattern(Tail(p), <<st[1], Append(st[2], c), FALSE>>)

\* the literal lit occurs in text at position pos
OccursAt(lit, text, pos, fold) ==
    /\ pos + Len(lit) - 1 <= Len(text)
    /\ \A k \in 1..Len(lit) :
          IF fold THEN Lower(text[pos + k - 1]) = Lower(lit[k])
          ELSE text[pos + k - 1] = lit[k]

\* the alternatives tried at every position
SearchAlternatives(alts, text, fold) ==
    \E a \in 1..Len(alts) : \E pos \in 1..Len(text) + 1 :
        OccursAt(alts[a], text, pos, fold)

\* re.search(pattern, text, flags)
re_search(pattern, text, fold) ==
    SearchAlternatives(ReadPattern(pattern, <<<<>>, <<>>, FALSE>>), text, fold)

\* (a slip that leaves case=False out)
str_contains_cased(title, pattern) == re_search(pattern, astype_str(title), FALSE)

\* .astype(str).str.contains(pattern, case=False, regex=True)
str_contains(title, pattern) == re_search(pattern, astype_str(title), TRUE)

----------------------------------------------------------------------------
(* CSV text of the boost table                                             *)

TrueText == <<"T", "r", "u", "e">>
FalseText == <<"F", "a", "l", "s", "e">>
Digits == <<"0", "1", "2", "3", "4", "5", "6", "7", "8", "9">>

\* DataFrame.to_csv, one cell: a missing value is the empty text
bool_to_csv(v) == IF IsNaN(v) THEN <<>> ELSE IF Get(v) THEN TrueText ELSE FalseText
text_to_csv(v) == IF IsNaN(v) THEN <<>> ELSE Get(v)
date_to_csv(v) ==
    IF IsNaN(v) THEN <<>>
    ELSE <<Digits[((Get(v) \div 10) % 10) + 1], Digits[(Get(v) % 10) + 1]>>

\* lines 83-84: df.to_csv(buf, index=False)
to_csv(df) ==
    [columns |-> {"Created Date", "Post Title", "Boosted"},
     rows |-> Tuple([i \in 1..Len(df) |->
        Fcn([c \in {"Created Date", "Post Title", "Boosted"} |->
            IF c = "Created Date" THEN date_to_csv(df[i][c])
            ELSE IF c = "Post Title" THEN text_to_csv(df[i][c])
            ELSE bool_to_csv(df[i][c])])])]

\* pd.read_csv, one cell of a boolean column: True/False parse, the empty
\* cell is NaN
bool_from_csv(cell) ==
    IF cell = TrueText THEN Val(TRUE)
    ELSE IF cell = FalseText THEN Val(FALSE)
    ELSE NaN
text_from_csv(cell) == IF cell = <<>> THEN NaN ELSE Val(cell)

\* line 112: pd.read_csv(boosted_config_file); only the two columns the merge
\* reads are kept here
read_config_csv(file) ==
    [columns |-> file.columns,
     rows |-> Tuple([i \in 1..Len(file.rows) |->
        Fcn([c \in file.columns \cap {"Post Title", "Boosted"} |->
            IF c = "Boosted" THEN bool_from_csv(file.rows[i][c])
            ELSE text_from_csv(file.rows[i][c])])])]

\* lines 113-116
ConfigIsValid(cfg) == "Post Title" \in cfg.columns /\ "Boosted" \in cfg.columns

----------------------------------------------------------------------------
(* Boost-Flag Merger, lines 125-137                                        *)

\* lines 125-126
BoostedDefault(posts) ==
    Tuple([i \in 1..Len(posts) |->
        Fcn([c \in {"Created Date", "Post Title", "Boosted"} |->
            IF c = "Boosted" THEN Val(FALSE) ELSE posts[i][c]])])

\* lines 128-133: DataFrame.merge(on="Post Title", how="left").  Each left row,
\* in order, is paired with every right row of the same title, in the right
\* table's order (missing titles match each other); a left row that matches
\* nothing is kept once with a missing Boosted_saved
MatchesOf(row, cfg) ==
    SelectIdx(cfg, LAMBDA j : cfg[j]["Post Title"] = row["Post Title"])

PairWith(row, ms) ==
    IF ms = <<>>
    THEN <<[left |-> row, Boosted_saved |-> NaN]>>
    ELSE Tuple([k \in 1..Len(ms) |->
            [left |-> row, Boosted_saved |-> ms[k]["Boosted"]]])

MergeLeftRow(row, cfg) == PairWith(row, MatchesOf(row, cfg))

merge_left(df, cfg) ==
    Concat(Tuple([i \in 1..Len(df) |-> MergeLeftRow(df[i], cfg)]))

\* (a slip that calls combine_first on the default column)
combine_first_reversed(saved, default) == IF NotNaN(default) THEN default ELSE saved

\* lines 134-136: Series.combine_first: the saved value unless it is missing
combine_first(saved, default) == IF NotNaN(saved) THEN saved ELSE default

\* lines 134-137, over the merged table
CombineSaved(m) ==
    Tuple([k \in 1..Len(m) |->
        [m[k].left EXCEPT !["Boosted"] = combine_first(m[k].Boosted_saved, @)]])

\* lines 125-137
BoostedDf(posts, config) ==
    IF IsNaN(config) THEN BoostedDefault(posts)
    ELSE CombineSaved(merge_left(BoostedDefault(posts), Get(config).rows))

\* lines 138-146: st.data_editor returns the table with the user's edits; the
\* edits modelled are the checkbox flips of the Boosted column
data_editor(df, flipped) ==
    Tuple([k \in 1..Len(df) |->
        IF k \in flipped /\ NotNaN(df[k]["Boosted"])
        THEN [df[k] EXCEPT !["Boosted"] = Val(~Get(@))]
        ELSE df[k]])

----------------------------------------------------------------------------
(* Filter Engine, lines 153-185                                            *)

\* Timestamp.date() and pd.to_datetime(date)
ToDate(t) == t \div TicksPerDay
ToTimestamp(d) == d * TicksPerDay

\* lines 153-156: the bounds of the date widget, as calendar dates
DateBounds(posts) ==
    LET min_date == SeriesMin(Column(posts, "Created Date"))
        max_date == SeriesMax(Column(posts, "Created Date"))
    IN  IF IsNaN(min_date) \/ IsNaN(max_date)
        THEN <<Day2000, MaxDay>>
        ELSE <<ToDate(Get(min_date)), ToDate(Get(max_date))>>

\* lines 159-164: what st.date_input returns: the default range until the
\* user picks, then the user's tuple of 0, 1 or 2 dates between the bounds
DateRange(posts, input) == IF IsNaN(input) THEN DateBounds(posts) ELSE Get(input)
DateChoices(posts) ==
    LET b == DateBounds(posts) IN SeqsUpTo(b[1]..b[2], 2)

\* (a slip that lets a missing date through the comparison)
InRangeOrMissing(d, start, end) == IsNaN(d) \/ (start <= Get(d) /\ Get(d) <= end)

\* line 176: (date >= start) & (date <= end); a comparison with NaT is False
InRange(d, start, end) == NotNaN(d) /\ start <= Get(d) /\ Get(d) <= end

\* lines 173-177
DateFilter(df, range) ==
    IF Len(range) = 2
    THEN LET start == ToTimestamp(range[1])
             end == ToTimestamp(range[2])
         IN  SelectIdx(df, LAMBDA i : InRange(df[i]["Created Date"], start, end))
    ELSE df

\* line 179
TagPattern(selected_tags) ==
    JoinBar(Tuple([i \in 1..Len(selected_tags) |-> re_escape(selected_tags[i])]))

\* lines 180-185, over the pattern
KeepMatching(df, pattern) ==
    SelectIdx(df, LAMBDA i : str_contains(df[i]["Post Title"], pattern))

\* lines 178-185
TagFilter(df, selected_tags) ==
    IF selected_tags # <<>>
    THEN KeepMatching(df, TagPattern(selected_tags))
    ELSE df

\* lines 172-185
Filtered(posts, range, selected_tags) ==
    TagFilter(DateFilter(posts, range), selected_tags)

\* the lists the multiselect can return: options in the order they were picked
Picks(options, n) ==
    {s \in SeqsUpTo(Range(options), Min({n, Len(options)})) :
        \A i, j \in DOMAIN s : i # j => s[i] # s[j]}

----------------------------------------------------------------------------
(* Benchmark Aggregator, lines 190-227                                     *)

BenchmarkColumns ==
    <<"Engagement Rate", "CTR", "Impressions", "Clicks", "Likes">>

\* Series.mean(): the mean of the non-missing values as <<sum, count>>, NaN
\* when there is none (an empty or all-missing column)
MeanOf(present) ==
    IF present = <<>> THEN NaN
    ELSE Val(<<SumSeq(Tuple([i \in 1..Len(present) |-> Get(present[i])])),
               Len(present)>>)
SeriesMean(col) == MeanOf(SelectIdx(col, LAMBDA i : NotNaN(col[i])))

\* lines 190-196
Metrics(df) == Fcn([c \in Range(BenchmarkColumns) |-> SeriesMean(Column(df, c))])

\* a / b rounded to the nearest integer, ties to even, as format() rounds
RoundDiv(a, b) ==
    LET q == a \div b
        r == a % b
    IN  IF 2 * r < b THEN q
        ELSE IF 2 * r > b THEN q + 1
        ELSE IF q % 2 = 0 THEN q ELSE q + 1

\* lines 199/201: (v or 0).  A float is falsy only when it is 0.0; NaN is
\* truthy, so a missing mean stays missing
OrZero(v) == IF NotNaN(v) /\ Get(v)[1] = 0 THEN Val(<<0, 1>>) ELSE v

\* lines 197-201: the number a card shows: hundredths for the two rates
\* (":.2f"), whole units for the counts (":,.0f"); NaN is shown as "nan"
MetricCard(c, v) ==
    LET x == OrZero(v)
    IN  IF IsNaN(x) THEN NaN
        ELSE IF c \in {"Engagement Rate", "CTR"}
        THEN Val(RoundDiv(Get(x)[1], Get(x)[2]))
        ELSE Val(RoundDiv(Get(x)[1], Get(x)[2] * One))

AboveAvg == "Above Avg"
BelowAvg == "Below Avg"

\* lines 206-210.  value and avg are floats: value >= avg is False when
\* either is NaN and never raises, so the except branch is not taken
flag(value, avg) ==
    IF NotNaN(value) /\ NotNaN(avg) /\ Get(value) * Get(avg)[2] >= Get(avg)[1]
    THEN AboveAvg
    ELSE BelowAvg

\* lines 212-227: the five flag columns of filtered_display
FilteredDisplay(df, avgs) ==
    Tuple([i \in 1..Len(df) |->
        Fcn([c \in Range(BenchmarkColumns) |-> flag(df[i][c], avgs[c])])])

----------------------------------------------------------------------------
(* Metrics Normalizer, lines 61-69                                         *)

DateWarning == "Could not find 'Date' column in Metrics file."
KeyError == "KeyError: 'Date'"

\* lines 66-68 for one row
ParseMetricRow(raw) ==
    Fcn([c \in DOMAIN raw |->
        IF c = "Date" THEN to_datetime(raw[c]) ELSE to_numeric(raw[c])])

\* lines 61-69.  Without a "Date" column line 64 warns and line 65 then reads
\* df["Date"], which raises KeyError: the function does not return
read_metrics_csv(file) ==
    IF "Date" \notin Range(file.columns)
    THEN [warnings |-> {DateWarning}, raised |-> Val(KeyError), df |-> NaN]
    ELSE [warnings |-> {}, raised |-> NaN,
          df |-> Val([columns |-> file.columns,
                      rows |-> Tuple([i \in 1..Len(file.rows) |->
                                    ParseMetricRow(file.rows[i])])])]

----------------------------------------------------------------------------
(* Trend Aggregator, lines 306-336                                         *)

preferred ==
    <<"Impressions (total)", "Clicks (total)", "Reactions (total)",
      "Comments (total)", "Reposts (total)", "Engagement rate (total)">>

\* lines 306-310: every column but Date is numeric after the coercion
MetricCols(dfm) == SelectSeq(dfm.columns, LAMBDA c : c # "Date")

\* lines 319-321
OrderedMetrics(dfm) ==
    LET metric_cols == MetricCols(dfm)
    IN  SelectSeq(preferred, LAMBDA c : c \in Range(metric_cols))
        \o SelectSeq(metric_cols, LAMBDA c : c \notin Range(preferred))

\* lines 322-324: the multiselect returns its default until the user picks
SelectedMetrics(dfm, input) ==
    IF IsNaN(input)
    THEN SubSeq(OrderedMetrics(dfm), 1, Min({3, Len(OrderedMetrics(dfm))}))
    ELSE Get(input)

\* lines 326-329: date_range is None without a posts file; an empty tuple is
\* falsy as well
MetricsInRange(rows, range) ==
    IF NotNaN(range) /\ Len(Get(range)) = 2
    THEN LET start == ToTimestamp(Get(range)[1])
             end == ToTimestamp(Get(range)[2])
         IN  SelectIdx(rows, LAMBDA i : InRange(rows[i]["Date"], start, end))
    ELSE rows

\* line 334: DataFrame.melt("Date"): for each selected column in turn, one
\* row per table row
melt(rows, selected) ==
    Concat(Tuple([k \in 1..Len(selected) |->
        Tuple([i \in 1..Len(rows) |->
            [Date |-> rows[i]["Date"], Metric |-> selected[k],
             Value |-> rows[i][selected[k]]]])]))

\* (a slip that leaves the call out)
dropna_none(long) == long

\* line 335: DataFrame.dropna(): a row with any missing cell goes
dropna(long) ==
    SelectIdx(long, LAMBDA i : NotNaN(long[i].Date) /\ NotNaN(long[i].Value))

\* lines 331-336
LongDf(rows, range, selected) == dropna(melt(MetricsInRange(rows, range), selected))

SelectInfo == "Select at least one metric to plot."
ConfigError == "boosted_config.csv must have 'Post Title' and 'Boosted' columns."

----------------------------------------------------------------------------
(* One run of the script, lines 102-354, over the widget state `in`.       *)
(* tag_order is the order sorted() gave the hashtags in this run.  The two *)
(* charts of lines 254-301 and the chart of lines 337-352 draw what is     *)
(* computed here and are not modelled.                                     *)

NotRendered ==
    [df_posts |-> NaN, df_metrics |-> NaN, df_boosted_config |-> NaN,
     boosted_edited |-> NaN, download |-> NaN, date_range |-> NaN,
     all_tags |-> <<>>, filtered |-> NaN, metrics |-> NaN,
     metric_cards |-> NaN, filtered_display |-> NaN, long_df |-> NaN,
     messages |-> {}, exception |-> NaN]

\* lines 190-227, over the filtered table and its means
Benchmarks(flt, avgs) ==
    [filtered |-> Val(flt),
     metrics |-> Val(avgs),
     metric_cards |-> Val(Fcn([c \in DOMAIN avgs |-> MetricCard(c, avgs[c])])),
     filtered_display |-> Val(FilteredDisplay(flt, avgs))]

\* lines 138-149, over the table the editor returns
BoostedSection(edited) ==
    [boosted_edited |-> Val(edited), download |-> Val(to_csv(edited))]

\* lines 153-185, over the value of the date widget
FilterSection(posts, range, selected_tags) ==
    [date_range |-> Val(range)]
        @@ Benchmarks(Filtered(posts, range, selected_tags),
                      Metrics(Filtered(posts, range, selected_tags)))

\* lines 122-252; without a posts file the section is skipped
PostsSection(posts, config, in, tag_order) ==
    IF IsNaN(posts)
    THEN [c \in {"boosted_edited", "download", "date_range", "filtered",
                 "metrics", "metric_cards", "filtered_display"} |-> NaN]
            @@ [all_tags |-> <<>>]
    ELSE BoostedSection(data_editor(BoostedDf(Get(posts), config), in.edited_rows))
            @@ FilterSection(Get(posts), DateRange(Get(posts), in.date_input),
                             in.tags_input)
            @@ [all_tags |-> tag_order]

\* lines 304-354; without a metrics table the section is skipped
TrendSection(df, range, in) ==
    IF IsNaN(df) THEN [long_df |-> NaN, info |-> {}]
    ELSE IF SelectedMetrics(Get(df), in.metrics_input) # <<>>
    THEN [long_df |-> Val(LongDf(Get(df).rows, range,
                                 SelectedMetrics(Get(df), in.metrics_input))),
          info |-> {}]
    ELSE [long_df |-> NaN, info |-> {SelectInfo}]

\* lines 103-109
ReadMetrics(in) ==
    IF IsNaN(in.uploaded_metrics)
    THEN [warnings |-> {}, raised |-> NaN, df |-> NaN]
    ELSE read_metrics_csv(Get(in.uploaded_metrics))
ReadPosts(in) ==
    IF IsNaN(in.uploaded_posts) THEN NaN
    ELSE Val(read_posts_csv(Get(in.uploaded_posts)))

\* lines 111-118: a file without the two columns is reported and dropped
ReadConfig(in) ==
    IF IsNaN(in.boosted_config_file) THEN NaN
    ELSE Val(read_config_csv(Get(in.boosted_config_file)))
ConfigRejected(cfg) == NotNaN(cfg) /\ ~ConfigIsValid(Get(cfg))
ConfigKept(cfg) == IF ConfigRejected(cfg) THEN NaN ELSE cfg

\* the sections put together: p is what the posts section rendered, t what
\* the trend section rendered
Sections(m, posts, cfg, p, t) ==
    [df_posts |-> posts, df_metrics |-> m.df,
     df_boosted_config |-> ConfigKept(cfg),
     long_df |-> t.long_df,
     messages |-> m.warnings
                  \cup (IF ConfigRejected(cfg) THEN {ConfigError} ELSE {})
                  \cup t.info,
     exception |-> NaN]
        @@ p

WithPosts(m, posts, cfg, p, in) ==
    Sections(m, posts, cfg, p, TrendSection(m.df, p.date_range, in))

RunFrom(m, posts, cfg, in, tag_order) ==
    IF NotNaN(m.raised)
    \* the exception leaves line 109: nothing below it runs
    THEN [NotRendered EXCEPT !.messages = m.warnings, !.exception = m.raised]
    ELSE WithPosts(m, posts, cfg,
                   PostsSection(posts, ConfigKept(cfg), in, tag_order), in)

Run(in, tag_order) ==
    RunFrom(ReadMetrics(in), ReadPosts(in), ReadConfig(in), in, tag_order)

\* line 165 for the titles of an uploaded posts file
TagOrders(up) ==
    IF IsNaN(up) THEN {<<>>}
    ELSE extract_hashtags(Column(read_posts_csv(Get(up)), "Post Title"))

\* the values of a run become the state
Rendered(out) ==
    /\ df_posts' = out.df_posts
    /\ df_metrics' = out.df_metrics
    /\ df_boosted_config' = out.df_boosted_config
    /\ boosted_edited' = out.boosted_edited
    /\ download' = out.download
    /\ date_range' = out.date_range
    /\ all_tags' = out.all_tags
    /\ filtered' = out.filtered
    /\ metrics' = out.metrics
    /\ metric_cards' = out.metric_cards
    /\ filtered_display' = out.filtered_display
    /\ long_df' = out.long_df
    /\ messages' = out.messages
    /\ exception' = out.exception

\* the script runs over the new widget state
Rerun ==
    \E tag_order \in TagOrders(uploaded_posts') :
        \E out \in {Run([uploaded_posts |-> uploaded_posts',
                         uploaded_metrics |-> uploaded_metrics',
                         boosted_config_file |-> boosted_config_file',
                         date_input |-> date_input',
                         tags_input |-> tags_input',
                         metrics_input |-> metrics_input',
                         edited_rows |-> edited_rows'], tag_order)} :
            Rendered(out)

----------------------------------------------------------------------------
(* The session                                                             *)

\* a fresh session: nothing uploaded, nothing rendered
Init ==
    /\ uploaded_posts = NaN
    /\ uploaded_metrics = NaN
    /\ boosted_config_file = NaN
    /\ date_input = NaN
    /\ tags_input = <<>>
    /\ metrics_input = NaN
    /\ edited_rows = {}
    /\ df_posts = NaN
    /\ df_metrics = NaN
    /\ df_boosted_config = NaN
    /\ boosted_edited = NaN
    /\ download = NaN
    /\ date_range = NaN
    /\ all_tags = <<>>
    /\ filtered = NaN
    /\ metrics = NaN
    /\ metric_cards = NaN
    /\ filtered_display = NaN
    /\ long_df = NaN
    /\ messages = {}
    /\ exception = NaN
    /\ first_export = NaN

\* The user drops a posts file, one of `files`.  A file is dropped once a
\* session: dropping another gives the state a fresh session reaches with it
UploadPosts(files) ==
    /\ IsNaN(uploaded_posts)
    /\ \E file \in files : uploaded_posts' = Val(file)
    /\ UNCHANGED <<uploaded_metrics, boosted_config_file, date_input, tags_input,
                   metrics_input, edited_rows, first_export>>
    /\ Rerun

\* The user drops the metrics file
UploadMetrics(files) ==
    /\ IsNaN(uploaded_metrics)
    /\ \E file \in files : uploaded_metrics' = Val(file)
    /\ UNCHANGED <<uploaded_posts, boosted_config_file, date_input, tags_input,
                   metrics_input, edited_rows, first_export>>
    /\ Rerun

\* The user drops a boosted_config.csv saved earlier
UploadBoostedConfig(files) ==
    /\ IsNaN(boosted_config_file)
    /\ \E file \in files : boosted_config_file' = Val(file)
    /\ edited_rows' = {}
    /\ UNCHANGED <<uploaded_posts, uploaded_metrics, date_input, tags_input,
                   metrics_input, first_export>>
    /\ Rerun

\* The user picks in the date widget.  The run depends on the widget's value
\* alone, so one pick from the untouched widget reaches every value
PickDates ==
    /\ NotNaN(df_posts)
    /\ IsNaN(date_input)
    /\ \E sel \in DateChoices(Get(df_posts)) : date_input' = Val(sel)
    /\ UNCHANGED <<uploaded_posts, uploaded_metrics, boosted_config_file,
                   tags_input, metrics_input, edited_rows, first_export>>
    /\ Rerun

\* The user picks hashtags among the options offered
PickTags ==
    /\ NotNaN(df_posts)
    /\ tags_input = <<>>
    /\ \E sel \in Picks(all_tags, MaxPicks) : sel # <<>> /\ tags_input' = sel
    /\ UNCHANGED <<uploaded_posts, uploaded_metrics, boosted_config_file,
                   date_input, metrics_input, edited_rows, first_export>>
    /\ Rerun

\* The user picks the metrics to plot (possibly none)
PickMetrics ==
    /\ NotNaN(df_metrics)
    /\ IsNaN(metrics_input)
    /\ \E sel \in Picks(OrderedMetrics(Get(df_metrics)), Len(Get(df_metrics).columns)) : metrics_input' = Val(sel)
    /\ UNCHANGED <<uploaded_posts, uploaded_metrics, boosted_config_file,
                   date_input, tags_input, edited_rows, first_export>>
    /\ Rerun

\* The user flips the Boosted checkbox of row k of the boost table (of a table
\* small enough to be uploaded again, see ReuploadExport)
FlipBoosted ==
    /\ NotNaN(boosted_edited)
    /\ Len(Get(boosted_edited)) <= MaxExportRows
    /\ \E k \in 1..Len(Get(boosted_edited)) :
          edited_rows' = IF k \in edited_rows THEN edited_rows \ {k}
                         ELSE edited_rows \cup {k}
    /\ UNCHANGED <<uploaded_posts, uploaded_metrics, boosted_config_file,
                   date_input, tags_input, metrics_input, first_export>>
    /\ Rerun

\* The user downloads boosted_config.csv and uploads it as the annotation
\* file; the editor shows the newly merged table, without edits.  (The table
\* can double at each round, so the model stops at MaxExportRows rows)
ReuploadExport ==
    /\ NotNaN(download)
    /\ Len(Get(download).rows) <= MaxExportRows
    /\ first_export' = download
    /\ boosted_config_file' = download
    /\ edited_rows' = {}
    /\ UNCHANGED <<uploaded_posts, uploaded_metrics, date_input, tags_input,
                   metrics_input>>
    /\ Rerun

----------------------------------------------------------------------------
(* The files the user may drop                                             *)

PostColumns ==
    {"Created Date", "Post Title", "CTR", "Engagement Rate", "Impressions",
     "Clicks", "Likes"}

PostRow(date, title, ctr) ==
    [c \in PostColumns |->
        IF c = "Created Date" THEN date
        ELSE IF c = "Post Title" THEN title
        ELSE IF c = "CTR" THEN ctr
        ELSE Num(One)]

\* click-through rates as exported: junk, fractions of 1, percentages
CtrCells == {Junk, Num(0), Num(2), Num(One), Num(150), Num(Hundred * One)}
CtrFiles ==
    {[i \in 1..Len(s) |-> PostRow(Date(0), Text(<<"a">>), s[i])] :
        s \in SeqsUpTo(CtrCells, MaxPostRows)}

\* one benchmark column varies, with missing cells
BenchCells == {Junk, Num(One), Num(2 * One), Num(3 * One)}
BenchFiles ==
    {[i \in 1..Len(s) |->
        [PostRow(Date(0), Text(<<"a">>), Num(5 * One)) EXCEPT ![c] = s[i]]] :
        s \in SeqsUpTo(BenchCells, MaxPostRows), c \in Range(BenchmarkColumns)}

\* creation dates vary: unparseable, or any timestamp of the days 0..MaxDay
DateCells == {Junk} \cup {Date(t) : t \in 0..((MaxDay + 1) * TicksPerDay - 1)}
DateFiles ==
    {[i \in 1..Len(s) |-> PostRow(s[i], Text(<<"#", "a">>), Num(One))] :
        s \in SeqsUpTo(DateCells, MaxDateRows)}

\* titles vary: a tag in capitals, two tags without a space, no title
TitlePool ==
    {<<"#", "A">>, <<"#", "a", "#", "B">>, <<>>}
TitledRows ==
    {PostRow(Date(0), Text(t), Num(One)) : t \in TitlePool}
        \cup {PostRow(Junk, Text(<<"#", "a">>), Num(One))}
TagFiles == SeqsUpTo(TitledRows, MaxTagRows)

\* posts to annotate: two titles and the missing title
BoostTitles == {<<"a">>, <<"b">>, <<>>}
BoostFiles ==
    {[i \in 1..Len(s) |-> PostRow(Date(i), Text(s[i]), Num(One))] :
        s \in SeqsUpTo(BoostTitles, MaxBoostRows)}

\* annotation files: written by hand or by an earlier session, so a title may
\* repeat, be unknown to the posts file or be empty, and a Boosted cell may
\* be empty
ConfigRow(t, b) ==
    [c \in {"Created Date", "Post Title", "Boosted"} |->
        IF c = "Created Date" THEN <<>> ELSE IF c = "Post Title" THEN t ELSE b]
ConfigRows ==
    {ConfigRow(<<"a">>, b) : b \in {TrueText, FalseText, <<>>}}
        \cup {ConfigRow(<<"c">>, TrueText), ConfigRow(<<>>, TrueText)}
ConfigFiles ==
    {[columns |-> {"Created Date", "Post Title", "Boosted"}, rows |-> r] :
        r \in SeqsUpTo(ConfigRows, MaxConfigRows)}
    \cup {[columns |-> {"Post Title"},
           rows |-> <<[c \in {"Post Title"} |-> <<"a">>]>>]}

\* metrics files: with a Date column (two preferred metrics, in the file's
\* order, or one more column), or without
MetricCells == {Junk, Num(One)}
MetricDates == {Junk, Date(0), Date(MaxDay * TicksPerDay)}
MetricTable(columns, rows) ==
    [columns |-> columns,
     rows |-> [i \in 1..Len(rows) |->
        [c \in Range(columns) |->
            IF c = "Date" THEN rows[i][1]
            ELSE IF c = "Clicks (total)" THEN rows[i][2]
            ELSE rows[i][3]]]]
MetricFiles ==
    {MetricTable(<<"Date", "Clicks (total)", "Impressions (total)">>, r) :
        r \in SeqsUpTo(MetricDates \X MetricCells \X MetricCells, MaxMetricRows)}
    \cup {MetricTable(<<"Clicks (total)", "Impressions (total)">>, r) :
        r \in SeqsUpTo({Junk} \X MetricCells \X MetricCells, 1)}
TrendPostFiles ==
    {<<PostRow(Date(0), Text(<<"a">>), Num(One))>>,
     <<PostRow(Date(0), Text(<<"a">>), Num(One)),
       PostRow(Date(MaxDay * TicksPerDay), Text(<<"a">>), Num(One))>>}

----------------------------------------------------------------------------
(* Specifications: the session, with the files of one component each       *)

NextNormalizer == UploadPosts(CtrFiles)
SpecNormalizer == Init /\ [][NextNormalizer]_vars

NextBenchmark == UploadPosts(BenchFiles)
SpecBenchmark == Init /\ [][NextBenchmark]_vars

NextDates ==
    \/ UploadPosts(DateFiles)
    \/ PickDates
    \/ PickTags
SpecDates == Init /\ [][NextDates]_vars

NextTags ==
    \/ UploadPosts(TagFiles)
    \/ PickDates
    \/ PickTags
SpecTags == Init /\ [][NextTags]_vars

NextBoost ==
    \/ UploadPosts(BoostFiles)
    \/ UploadBoostedConfig(ConfigFiles)
    \/ FlipBoosted
    \/ ReuploadExport
SpecBoost == Init /\ [][NextBoost]_vars

NextTrend ==
    \/ UploadMetrics(MetricFiles)
    \/ UploadPosts(TrendPostFiles)
    \/ PickDates
    \/ PickMetrics
SpecTrend == Init /\ [][NextTrend]_vars

Next ==
    \/ NextNormalizer
    \/ NextBenchmark
    \/ NextDates
    \/ NextTags
    \/ NextBoost
    \/ NextTrend
Spec == Init /\ [][Next]_vars

----------------------------------------------------------------------------
(* Properties                                                              *)

\* the uploaded files and the tables read from them
PostsFile == Get(uploaded_posts)
MetricsFile == Get(uploaded_metrics)
Posts == Get(df_posts)
FilteredRows == Get(filtered)

\* C2: after read_posts_csv returns, every non-missing CTR value lies in
\* [0, 100], whether the file gave fractions of 1 or percentages.
\* (SpecNormalizer)
CtrIsPercentage ==
    NotNaN(df_posts) =>
        \A i \in 1..Len(Posts) :
            NotNaN(Posts[i]["CTR"]) =>
                /\ 0 <= Get(Posts[i]["CTR"])
                /\ Get(Posts[i]["CTR"]) <= Hundred * One
\* a file of fractions was read and rescaled
CtrRescaledWitness ==
    /\ NotNaN(df_posts)
    /\ \E i \in 1..Len(Posts) :
          /\ PostsFile[i]["CTR"] = Num(2)
          /\ Posts[i]["CTR"] = Val(2 * Hundred)
    /\ \E i \in 1..Len(Posts) : Posts[i]["CTR"] = Val(Hundred * One)

\* C1, as stated: whatever the date widget holds, every row of the filtered
\* table has a Created Date, and it lies between the first and the last date
\* picked.  (SpecDates)
FilteredRowsAreDated ==
    NotNaN(filtered) =>
        \A i \in 1..Len(FilteredRows) :
            /\ NotNaN(FilteredRows[i]["Created Date"])
            /\ Len(Get(date_range)) >= 1 =>
                  InRange(FilteredRows[i]["Created Date"],
                          ToTimestamp(Get(date_range)[1]),
                          ToTimestamp(Get(date_range)[Len(Get(date_range))]))
\* C1, amended: when the date widget holds two dates, start and end, every
\* row of the filtered table has a Created Date d with start <= d <= end, and
\* no row with a missing date is in it.  (SpecDates)
FilteredRowsInRange ==
    (NotNaN(filtered) /\ Len(Get(date_range)) = 2) =>
        \A i \in 1..Len(FilteredRows) :
            /\ NotNaN(FilteredRows[i]["Created Date"])
            /\ ToTimestamp(Get(date_range)[1]) <= Get(FilteredRows[i]["Created Date"])
            /\ Get(FilteredRows[i]["Created Date"]) <= ToTimestamp(Get(date_range)[2])
\* two dates are picked; the filter dropped a row without a date and kept one
DateFilterWitness ==
    /\ NotNaN(filtered)
    /\ NotNaN(date_input)
    /\ Len(Get(date_range)) = 2
    /\ \E i \in 1..Len(Posts) : IsNaN(Posts[i]["Created Date"])
    /\ Len(FilteredRows) >= 1
    /\ Len(FilteredRows) < Len(Posts)

\* the title holds the tag as a literal, letter case aside
ContainsIgnoringCase(title, tag) ==
    /\ NotNaN(title)
    /\ \E pos \in 1..Len(Get(title)) :
          /\ pos + Len(tag) - 1 <= Len(Get(title))
          /\ \A k \in 1..Len(tag) :
                Lower(Get(title)[pos + k - 1]) = Lower(tag[k])
HasSelectedTag(row) ==
    \E t \in 1..Len(tags_input) : ContainsIgnoringCase(row["Post Title"], tags_input[t])
DateFiltered == DateFilter(Posts, Get(date_range))

\* C9: with hashtags selected, a row that passed the date filter is in the
\* filtered table exactly if its title contains one of the selected tags as a
\* literal, letter case ignored; with none selected the hashtag step removes
\* no row.  (SpecTags)
TagFilterKeepsMatches ==
    NotNaN(filtered) =>
        IF tags_input = <<>> THEN FilteredRows = DateFiltered
        ELSE FilteredRows =
                SelectIdx(DateFiltered, LAMBDA i : HasSelectedTag(DateFiltered[i]))
\* a tag is selected; a row is kept whose title has it in another case only,
\* and a row that passed the date filter is dropped
TagFilterWitness ==
    /\ NotNaN(filtered)
    /\ tags_input = <<<<"#", "a">>>>
    /\ \E i \in 1..Len(FilteredRows) :
          FilteredRows[i]["Post Title"] = Val(<<"#", "A">>)
    /\ Len(FilteredRows) >= 2
    /\ Len(FilteredRows) < Len(DateFiltered)

\* C5: a filtered row whose value for a benchmark metric is missing has no
\* flag for it, neither above nor below average.  (SpecBenchmark)
MissingValueIsUnflagged ==
    NotNaN(filtered_display) =>
        \A i \in 1..Len(FilteredRows) : \A c \in Range(BenchmarkColumns) :
            IsNaN(FilteredRows[i][c]) =>
                Get(filtered_display)[i][c] \notin {AboveAvg, BelowAvg}

\* C6: when every value of a benchmark metric is missing in the filtered
\* table (also when the table is empty), the card of the metric shows the
\* number 0.  (SpecBenchmark)
AllMissingMeanShownAsZero ==
    NotNaN(metric_cards) =>
        \A c \in Range(BenchmarkColumns) :
            (\A i \in 1..Len(FilteredRows) : IsNaN(FilteredRows[i][c])) =>
                Get(metric_cards)[c] = Val(0)

\* C7: a metrics file without a Date column is warned about and read all the
\* same: the run ends without an exception, with a metrics table, and the
\* posts sections are rendered.  (SpecTrend)
NoDateColumnIsNotFatal ==
    (NotNaN(uploaded_metrics) /\ "Date" \notin Range(MetricsFile.columns)) =>
        /\ DateWarning \in messages
        /\ IsNaN(exception)
        /\ NotNaN(df_metrics)
        /\ NotNaN(uploaded_posts) => NotNaN(filtered)

\* the metrics table the long form is made from, and the long form
TrendRows ==
    MetricsInRange(Get(df_metrics).rows, date_range)
TrendSelected == SelectedMetrics(Get(df_metrics), metrics_input)
LongRows == Get(long_df)
CountLong(d, m, v) ==
    Cardinality({k \in 1..Len(LongRows) :
        LongRows[k] = [Date |-> d, Metric |-> m, Value |-> v]})
CountWide(d, m, v) ==
    Cardinality({i \in 1..Len(TrendRows) :
        TrendRows[i]["Date"] = d /\ TrendRows[i][m] = v})
TrendDates == {NaN} \cup {TrendRows[i]["Date"] : i \in 1..Len(TrendRows)}
TrendValues ==
    {NaN} \cup {TrendRows[i][m] : i \in 1..Len(TrendRows), m \in Range(TrendSelected)}

\* C8, as stated: the long form holds one row for each date row and selected
\* metric whose value is not missing, and no other row.  (SpecTrend)
LongFormOfPresentValues ==
    NotNaN(long_df) =>
        /\ \A d \in TrendDates, m \in Range(TrendSelected), v \in TrendValues :
              CountLong(d, m, v) = IF NotNaN(v) THEN CountWide(d, m, v) ELSE 0
        /\ \A k \in 1..Len(LongRows) :
              /\ LongRows[k].Metric \in Range(TrendSelected)
              /\ LongRows[k].Date \in TrendDates
              /\ LongRows[k].Value \in TrendValues
\* C8, amended: the long form holds one row for each date row and selected
\* metric whose value and date are both not missing, and no other row; with
\* two metrics selected and nothing missing that is twice the number of date
\* rows.  (SpecTrend)
LongFormOfPresentCells ==
    NotNaN(long_df) =>
        /\ \A d \in TrendDates, m \in Range(TrendSelected), v \in TrendValues :
              CountLong(d, m, v) =
                 IF NotNaN(v) /\ NotNaN(d) THEN CountWide(d, m, v) ELSE 0
        /\ \A k \in 1..Len(LongRows) :
              /\ LongRows[k].Metric \in Range(TrendSelected)
              /\ LongRows[k].Date \in TrendDates
              /\ LongRows[k].Value \in TrendValues
        /\ (/\ Len(TrendSelected) = 2
            /\ \A i \in 1..Len(TrendRows) : \A c \in DOMAIN TrendRows[i] :
                  NotNaN(TrendRows[i][c]))
              => Len(LongRows) = 2 * Len(TrendRows)
\* two metrics are selected over two date rows, one value is missing and the
\* other three cells are in the long form
LongFormWitness ==
    /\ NotNaN(long_df)
    /\ Len(TrendSelected) = 2
    /\ Len(TrendRows) = 2
    /\ \A i \in 1..2 : NotNaN(TrendRows[i]["Date"])
    /\ \E i \in 1..2 : \E m \in Range(TrendSelected) : IsNaN(TrendRows[i][m])
    /\ Len(LongRows) = 3

\* the rows of the boost table, and the values saved for a title
BoostRows == Get(boosted_edited)
SavedValues(title) ==
    IF IsNaN(df_boosted_config) THEN {}
    ELSE {Get(df_boosted_config).rows[j]["Boosted"] :
            j \in {k \in 1..Len(Get(df_boosted_config).rows) :
                    /\ Get(df_boosted_config).rows[k]["Post Title"] = title
                    /\ NotNaN(Get(df_boosted_config).rows[k]["Boosted"])}}

\* C3: before any edit, the Boosted value of a post whose title has a saved
\* value in the annotation table is that saved value, and the Boosted value
\* of every other post is false (of every post, without an annotation table).
\* (SpecBoost)
InitialBoostedIsSaved ==
    (NotNaN(boosted_edited) /\ edited_rows = {}) =>
        \A k \in 1..Len(BoostRows) :
            IF SavedValues(BoostRows[k]["Post Title"]) # {}
            THEN BoostRows[k]["Boosted"] \in SavedValues(BoostRows[k]["Post Title"])
            ELSE BoostRows[k]["Boosted"] = Val(FALSE)

\* C10: the boost table has one row for each row of the posts table, in the
\* same order, whatever the annotation table holds.  (SpecBoost)
OneBoostRowPerPost ==
    NotNaN(boosted_edited) =>
        /\ Len(BoostRows) = Len(Posts)
        /\ \A i \in 1..Len(BoostRows) :
              /\ BoostRows[i]["Post Title"] = Posts[i]["Post Title"]
              /\ BoostRows[i]["Created Date"] = Posts[i]["Created Date"]

\* the Boosted cells an export holds for a title
ExportedValues(csv, title) ==
    {csv.rows[i]["Boosted"] :
        i \in {k \in 1..Len(csv.rows) : csv.rows[k]["Post Title"] = title}}
ExportedTitles(csv) == {csv.rows[i]["Post Title"] : i \in 1..Len(csv.rows)}

\* C4: an export uploaded again as the annotation file and exported again
\* without an edit gives every title the Boosted values the first export gave
\* it.  (SpecBoost)
ExportRoundTrip ==
    (NotNaN(first_export) /\ NotNaN(download) /\ edited_rows = {}) =>
        /\ ExportedTitles(Get(download)) = ExportedTitles(Get(first_export))
        /\ \A t \in ExportedTitles(Get(first_export)) :
              /\ ExportedValues(Get(download), t) = ExportedValues(Get(first_export), t)
              /\ ExportedValues(Get(download), t) \subseteq {TrueText, FalseText}
\* an export with a boosted post, edited from a hand-made annotation, came
\* back: both values are in it
RoundTripWitness ==
    /\ NotNaN(first_export)
    /\ edited_rows = {}
    /\ Len(Get(first_export).rows) = 2
    /\ \E i, j \in 1..Len(Get(download).rows) :
          /\ Get(download).rows[i]["Boosted"] = TrueText
          /\ Get(download).rows[j]["Boosted"] = FalseText
          /\ Get(download).rows[i]["Post Title"] # Get(download).rows[j]["Post Title"]

====
